---------------------------- MODULE Spec2Model ----------------------------
(***************************************************************************)
(* PerformanceMonitor (backend/app/guardian/monitor.py): the monitoring    *)
(* loop, the history buffer and moving-average windows, the anomaly        *)
(* detector, the alert dispatch and the status roll-up.                    *)
(*                                                                         *)
(* Numbers.  Metric values are floats in the source.  The model keeps them *)
(* as integers in units of 1/10000 (win_rate 0.58 is 5800, latency 85 ms   *)
(* is 850000) and compares the deviation |current - mean| / mean against        *)
(* 0.10, 0.15 and 0.20 exactly, by cross-multiplication, so a deviation is *)
(* the pair (dev_num, dev_den) = (|current*n - sum|, sum) of the n prior   *)
(* window values.  Floating-point rounding at the exact band edges is not  *)
(* modelled.                                                               *)
(*                                                                         *)
(* Time is in seconds.  asyncio runs the code between two awaits without   *)
(* interruption, so every action below is the code from one await to the   *)
(* next.                                                                   *)
(*                                                                         *)
(* AuthService (backend/app/auth/service.py): login, refresh-token         *)
(* rotation and logout over the table of sessions.  It shares the clock    *)
(* with the monitor and nothing else.                                      *)
(***************************************************************************)
EXTENDS Integers, Sequences, FiniteSets, TLC

VARIABLES
    metrics_history,   \* self.metrics_history: deque(maxlen = HistoryMaxLen)
    moving_averages,   \* self.moving_averages: metric name -> deque(maxlen = WindowMaxLen)
    alerts,            \* self.alerts: the in-process alert log
    is_running,        \* self.is_running
    notifier,          \* self.notifier is not None
    now,               \* datetime.utcnow(), in seconds
    pc,                \* per start_monitoring() call: where its coroutine is suspended
    current,           \* per call: detect_anomalies' local `current`
    idx,               \* per call: index in `checks` of the next metric to evaluate
    det_alerts,        \* per call: detect_anomalies' local list `alerts`
                       \* (the three are kept until the call's next iteration begins)
    wake_at,           \* per call: when its asyncio.sleep ends
    iterations,        \* number of loop iterations begun so far (bounded by MaxIter)
    stalls,            \* number of long fetches so far (bounded by MaxStalls)
    reply,             \* what get_current_status() returned, if the last step was a call of it
    report,            \* what get_metrics_report() returned, if the last step was a call of it
    sessions,          \* the rows of the table of Session, in the order of their insertion
    calls,             \* per AuthService call in flight: its arguments, locals and outcome
    issued,            \* the refresh tokens AuthService has returned to clients so far
    logged_out,        \* the tokens whose session a logout(user_id, token) has revoked
    rotated            \* the tokens a successful refresh_token(token) has used

\* the state of AuthService and of its clients
auth_vars == << sessions, calls, issued, logged_out, rotated >>

\* the state of the monitor, without the clock
monitor_vars == << metrics_history, moving_averages, alerts, is_running, notifier,
                   pc, current, idx, det_alerts, wake_at, iterations, stalls, reply,
                   report >>

vars == << metrics_history, moving_averages, alerts, is_running, notifier, now,
           pc, current, idx, det_alerts, wake_at, iterations, stalls, reply,
           report, sessions, calls, issued, logged_out, rotated >>

-----------------------------------------------------------------------------
(* Bounds of the model.  The source's sizes (12, 288, 288, 10000) are      *)
(* scaled down, keeping their order: ColdStart < MinHistory = WindowMaxLen *)
(* < HistoryMaxLen.                                                        *)

\* monitor.py:166  `if len(ma_values) < 12`
ColdStart == 2
\* monitor.py:143  `if len(self.metrics_history) < 288`
MinHistory == 3
\* monitor.py:69-74  deque(maxlen=288)
WindowMaxLen == 3
\* monitor.py:65  deque(maxlen=10000)
HistoryMaxLen == 4
\* iterations of the loop the model follows
MaxIter == 5
\* fetches that take a day to answer, in SpecAged (the fetch has no timeout)
MaxStalls == 1

-----------------------------------------------------------------------------
(* Program constants, metric values in units of 1/10000.                   *)

WIN_RATE_THRESHOLD == 5500
PROFIT_FACTOR_THRESHOLD == 15000
SHARPE_RATIO_THRESHOLD == 10000
MAX_DRAWDOWN_THRESHOLD == 1500
EXPECTANCY_THRESHOLD == 0
LATENCY_THRESHOLD_MS == 1000000
\* DEVIATION_THRESHOLD = 0.10, in percent
DEVIATION_THRESHOLD == 10
\* `deviation > 0.15`, in percent
EMIT_DEVIATION == 15
\* `deviation < 0.20`, in percent
CRITICAL_DEVIATION == 20
\* asyncio.sleep(300)
NOMINAL_SLEEP == 300
\* asyncio.sleep(60)
BACKOFF_SLEEP == 60
\* timedelta(hours=24), in seconds
DAY == 86400
\* `len(recent_alerts) > 3`
WARNING_COUNT == 3

\* the start_monitoring() calls the model follows
LoopIds == {"t1", "t2"}

MetricNames == {"win_rate", "profit_factor", "sharpe_ratio", "max_drawdown",
                "expectancy", "latency_ms"}

\* class AlertLevel
AlertLevel == [INFO |-> "info", WARNING |-> "warning", CRITICAL |-> "critical"]

-----------------------------------------------------------------------------
(* Helpers.                                                                *)

Abs(x) == IF x < 0 THEN -x ELSE x

Max(a, b) == IF a > b THEN a ELSE b

RECURSIVE SumSeq(_)
SumSeq(s) == IF s = << >> THEN 0 ELSE Head(s) + SumSeq(Tail(s))

\* DequeAppend that makes room at the wrong end
DequeAppend_DropNewest(d, x, cap) ==
    IF Len(d) >= cap THEN Append(SubSeq(d, 1, Len(d) - 1), x) ELSE Append(d, x)

\* deque(maxlen = cap).append(x): a full deque drops its leftmost element
DequeAppend(d, x, cap) ==
    IF Len(d) >= cap THEN Append(Tail(d), x) ELSE Append(d, x)

\* the metric fields of a MetricSnapshot, as _fetch_bot_metrics returns them
Sample(wr, pf, sr, dd, ex, lat) ==
    [win_rate |-> wr, profit_factor |-> pf, sharpe_ratio |-> sr, max_drawdown |-> dd,
     expectancy |-> ex, latency_ms |-> lat,
     total_trades |-> 150, winning_trades |-> 87, losing_trades |-> 63]

\* the values the stub _fetch_bot_metrics returns
StubSample == Sample(5800, 18000, 12000, 1200, 500, 850000)

\* what the metric source answers in the monitoring loop: the stub's values,
\* or a reading in which win_rate, profit_factor and latency_ms have drifted
Samples ==
    { StubSample,
      Sample(4800, 14500, 12000, 1200, 500, 980000) }

\* MetricSnapshot(timestamp = datetime.utcnow(), **metrics)
MetricSnapshot(sample, ts) == [timestamp |-> ts] @@ sample

\* the value of `current` before detect_anomalies has bound it
NoSnapshot == MetricSnapshot(Sample(0, 0, 0, 0, 0, 0), -1)

\* Checks with a sixth entry, for expectancy
Checks_WithExpectancy ==
    << [name |-> "win_rate",      threshold |-> WIN_RATE_THRESHOLD,      direction |-> ">"],
       [name |-> "profit_factor", threshold |-> PROFIT_FACTOR_THRESHOLD, direction |-> ">"],
       [name |-> "sharpe_ratio",  threshold |-> SHARPE_RATIO_THRESHOLD,  direction |-> ">"],
       [name |-> "max_drawdown",  threshold |-> MAX_DRAWDOWN_THRESHOLD,  direction |-> "<"],
       [name |-> "latency_ms",    threshold |-> LATENCY_THRESHOLD_MS,    direction |-> "<"],
       [name |-> "expectancy",    threshold |-> EXPECTANCY_THRESHOLD,    direction |-> ">"] >>

\* the list `checks` of detect_anomalies, without the message texts
Checks ==
    << [name |-> "win_rate",      threshold |-> WIN_RATE_THRESHOLD,      direction |-> ">"],
       [name |-> "profit_factor", threshold |-> PROFIT_FACTOR_THRESHOLD, direction |-> ">"],
       [name |-> "sharpe_ratio",  threshold |-> SHARPE_RATIO_THRESHOLD,  direction |-> ">"],
       [name |-> "max_drawdown",  threshold |-> MAX_DRAWDOWN_THRESHOLD,  direction |-> "<"],
       [name |-> "latency_ms",    threshold |-> LATENCY_THRESHOLD_MS,    direction |-> "<"] >>

-----------------------------------------------------------------------------
(* detect_anomalies, one metric.                                           *)

\* DeviationGT that measures the deviation against the magnitude of the
\* baseline, abs(ma_avg)
DeviationGT_Magnitude(num, den, pct) == 100 * num > pct * Abs(den)

\* deviation > pct/100, where deviation = num/den and den may be negative
DeviationGT(num, den, pct) ==
    IF den > 0 THEN 100 * num > pct * den ELSE 100 * num < pct * den

\* deviation < pct/100
DeviationLT(num, den, pct) ==
    IF den > 0 THEN 100 * num < pct * den ELSE 100 * num > pct * den

\* LevelOf with the two levels exchanged
LevelOf_Inverted(num, den) ==
    IF DeviationLT(num, den, CRITICAL_DEVIATION)
    THEN AlertLevel.CRITICAL ELSE AlertLevel.WARNING

\* LevelOf with `deviation <= 0.20`
LevelOf_Inclusive(num, den) ==
    IF ~DeviationGT(num, den, CRITICAL_DEVIATION)
    THEN AlertLevel.WARNING ELSE AlertLevel.CRITICAL

\* `level = WARNING if deviation < 0.20 else CRITICAL`
LevelOf(num, den) ==
    IF DeviationLT(num, den, CRITICAL_DEVIATION)
    THEN AlertLevel.WARNING ELSE AlertLevel.CRITICAL

\* ThresholdBreached with `<=` and `>=`
ThresholdBreached_Inclusive(direction, current_val, threshold) ==
    IF direction = ">" /\ current_val <= threshold THEN TRUE
    ELSE IF direction = "<" /\ current_val >= threshold THEN TRUE
    ELSE FALSE

\* the direction-aware static threshold test
ThresholdBreached(direction, current_val, threshold) ==
    IF direction = ">" /\ current_val < threshold THEN TRUE
    ELSE IF direction = "<" /\ current_val > threshold THEN TRUE
    ELSE FALSE

\* EmitGate with `deviation >= 0.15`
EmitGate_AtLeast(breached, num, den) ==
    breached \/ ~DeviationLT(num, den, EMIT_DEVIATION)

\* `if threshold_breached or deviation > 0.15`
EmitGate(breached, num, den) ==
    breached \/ DeviationGT(num, den, EMIT_DEVIATION)

\* `if deviation > self.DEVIATION_THRESHOLD`
OutOfVariance(num, den) == DeviationGT(num, den, DEVIATION_THRESHOLD)

\* TooLittleHistory that lets the detector run one snapshot early
TooLittleHistory_OneShort(history) == Len(history) < MinHistory - 1

\* TooLittleHistory with the window's gate in place of the history's
TooLittleHistory_Cold(history) == Len(history) < ColdStart

\* `if len(self.metrics_history) < 288: return []`
TooLittleHistory(history) == Len(history) < MinHistory

\* `if len(ma_values) < 12: continue`
ColdStartSkip(ma_values) == Len(ma_values) < ColdStart

\* MakeAlert whose id is the epoch second alone
MakeAlert_IdSeconds(check, current_val, num, den, ts) ==
    [id |-> << "alert", ts >>,
     level |-> LevelOf(num, den),
     metric_name |-> check.name,
     current_value |-> current_val,
     threshold |-> check.threshold,
     dev_num |-> num,
     dev_den |-> den,
     timestamp |-> ts]

\* Alert(id = f"{metric_name}_{int(utcnow().timestamp())}", ...); the message
\* and suggested_action texts are left out
MakeAlert(check, current_val, num, den, ts) ==
    [id |-> << check.name, ts >>,
     level |-> LevelOf(num, den),
     metric_name |-> check.name,
     current_value |-> current_val,
     threshold |-> check.threshold,
     dev_num |-> num,
     dev_den |-> den,
     timestamp |-> ts]

\* EvalMetric that takes a zero baseline for an unbounded deviation
EvalMetric_ZeroAlerts(check, current_val, ma_values, ts) ==
    IF ColdStartSkip(ma_values) THEN << >>
    ELSE LET n     == Len(ma_values) - 1
             total == SumSeq(SubSeq(ma_values, 1, n))
             num   == Abs(current_val * n - total)
         IN  IF total = 0 THEN << MakeAlert(check, current_val, num, total, ts) >>
             ELSE IF ~OutOfVariance(num, total) THEN << >>
             ELSE IF EmitGate(ThresholdBreached(check.direction, current_val,
                                                check.threshold), num, total)
                  THEN << MakeAlert(check, current_val, num, total, ts) >>
                  ELSE << >>

\* EvalMetric whose mean divides the sum of ma_values[:-1] by len(ma_values)
EvalMetric_DivideByLen(check, current_val, ma_values, ts) ==
    IF ColdStartSkip(ma_values) THEN << >>
    ELSE LET n     == Len(ma_values) - 1
             total == SumSeq(SubSeq(ma_values, 1, n))
             num   == Abs(current_val * (n + 1) - total)
         IN  IF total = 0 THEN << >>
             ELSE IF ~OutOfVariance(num, total) THEN << >>
             ELSE IF EmitGate(ThresholdBreached(check.direction, current_val,
                                                check.threshold), num, total)
                  THEN << MakeAlert(check, current_val, num, total, ts) >>
                  ELSE << >>

\* EvalMetric whose baseline is the mean of the whole window, the current
\* value included
EvalMetric_WholeWindow(check, current_val, ma_values, ts) ==
    IF ColdStartSkip(ma_values) THEN << >>
    ELSE LET n     == Len(ma_values)
             total == SumSeq(ma_values)
             num   == Abs(current_val * n - total)
         IN  IF total = 0 THEN << >>
             ELSE IF ~OutOfVariance(num, total) THEN << >>
             ELSE IF EmitGate(ThresholdBreached(check.direction, current_val,
                                                check.threshold), num, total)
                  THEN << MakeAlert(check, current_val, num, total, ts) >>
                  ELSE << >>

\* the body of the `for ... in checks` loop for one metric: the alerts it
\* creates (none or one).  ma_values[:-1] has n = Len - 1 values that sum
\* to `total`; ma_avg == 0 iff total = 0, and
\* deviation = |current_val - total/n| / (total/n) = |current_val*n - total| / total
EvalMetric(check, current_val, ma_values, ts) ==
    IF ColdStartSkip(ma_values) THEN << >>
    ELSE LET n     == Len(ma_values) - 1
             total == SumSeq(SubSeq(ma_values, 1, n))
             num   == Abs(current_val * n - total)
         IN  IF total = 0 THEN << >>
             ELSE IF ~OutOfVariance(num, total) THEN << >>
             ELSE IF EmitGate(ThresholdBreached(check.direction, current_val,
                                                check.threshold), num, total)
                  THEN << MakeAlert(check, current_val, num, total, ts) >>
                  ELSE << >>

\* detect_anomalies from check i on, run until it suspends in notifier.send
\* (done = FALSE) or leaves the for loop (done = TRUE).  With no notifier
\* send_alert never suspends and the whole loop runs in one piece.
RECURSIVE DetectRun(_, _, _, _, _, _)
DetectRun(i, cur, windows, ts, found, has_notifier) ==
    IF i > Len(Checks) THEN [idx |-> i, det |-> found, done |-> TRUE]
    ELSE LET c == Checks[i]
             a == EvalMetric(c, cur[c.name], windows[c.name], ts)
         IN  IF a = << >> THEN DetectRun(i + 1, cur, windows, ts, found, has_notifier)
             ELSE IF has_notifier
                  THEN [idx |-> i + 1, det |-> found \o a, done |-> FALSE]
                  ELSE DetectRun(i + 1, cur, windows, ts, found \o a, has_notifier)

-----------------------------------------------------------------------------
(* get_current_status.                                                     *)

\* `[a for a in self.alerts if a.timestamp > utcnow() - timedelta(hours=24)]`
RecentAlerts(log, t) == SelectSeq(log, LAMBDA a : a.timestamp > t - DAY)

\* `sum(1 for a in recent_alerts if a.level == AlertLevel.CRITICAL)`
CriticalCount(recent) == Len(SelectSeq(recent, LAMBDA a : a.level = AlertLevel.CRITICAL))

\* StatusOf with `len(recent_alerts) >= 3`
StatusOf_AtLeast(history, log, t) ==
    IF history = << >> THEN "initializing"
    ELSE LET recent_alerts == RecentAlerts(log, t)
         IN  IF CriticalCount(recent_alerts) > 0 THEN "critical"
             ELSE IF Len(recent_alerts) >= WARNING_COUNT THEN "warning"
             ELSE "healthy"

\* the 'status' entry of the dictionary get_current_status returns
StatusOf(history, log, t) ==
    IF history = << >> THEN "initializing"
    ELSE LET recent_alerts == RecentAlerts(log, t)
         IN  IF CriticalCount(recent_alerts) > 0 THEN "critical"
             ELSE IF Len(recent_alerts) > WARNING_COUNT THEN "warning"
             ELSE "healthy"

-----------------------------------------------------------------------------
(* get_metrics_report.                                                     *)

\* timedelta(hours=1), in seconds
HOUR == 3600

\* the values of `hours` the request layer asks for (24 is the default)
ReportHours == {0, 24}

\* [m.<name> for m in recent]
Column(snapshots, name) == [i \in 1..Len(snapshots) |-> snapshots[i][name]]

\* min([...]) of a non-empty list
RECURSIVE MinOf(_)
MinOf(s) ==
    IF Len(s) = 1 THEN s[1]
    ELSE LET r == MinOf(Tail(s)) IN IF Head(s) < r THEN Head(s) ELSE r

\* max([...]) of a non-empty list
RECURSIVE MaxOf(_)
MaxOf(s) ==
    IF Len(s) = 1 THEN s[1]
    ELSE LET r == MaxOf(Tail(s)) IN IF Head(s) > r THEN Head(s) ELSE r

\* RecentSnapshots with `m.timestamp >= cutoff`
RecentSnapshots_Inclusive(history, t, hours) ==
    SelectSeq(history, LAMBDA m : m.timestamp >= t - hours * HOUR)

\* `cutoff = utcnow() - timedelta(hours=hours)`,
\* `recent = [m for m in self.metrics_history if m.timestamp > cutoff]`
RecentSnapshots(history, t, hours) ==
    SelectSeq(history, LAMBDA m : m.timestamp > t - hours * HOUR)

\* no call of get_metrics_report has just returned
NoReport == [kind |-> "none"]

\* `return {'error': ...}`
ErrorReport == [kind |-> "error"]

\* the dictionary get_metrics_report returns.  statistics.mean(xs) is kept
\* as the sum of xs: the average is `sum` / data_points
MetricsReport(history, t, hours) ==
    LET recent == RecentSnapshots(history, t, hours)
        newest == recent[Len(recent)]
    IN  IF recent = << >> THEN ErrorReport
        ELSE [kind |-> "report",
              period_hours |-> hours,
              data_points |-> Len(recent),
              win_rate |-> [current |-> newest.win_rate,
                            sum |-> SumSeq(Column(recent, "win_rate")),
                            min |-> MinOf(Column(recent, "win_rate")),
                            max |-> MaxOf(Column(recent, "win_rate"))],
              profit_factor |-> [current |-> newest.profit_factor,
                                 sum |-> SumSeq(Column(recent, "profit_factor"))],
              sharpe_ratio |-> [current |-> newest.sharpe_ratio,
                                sum |-> SumSeq(Column(recent, "sharpe_ratio"))],
              max_drawdown |-> [current |-> newest.max_drawdown,
                                max_observed |-> MaxOf(Column(recent, "max_drawdown"))]]

-----------------------------------------------------------------------------
(* AuthService: tokens, sessions and calls.                                *)

\* the AuthService calls the model follows at a time
CallIds == {"a1", "a2"}

\* rows the table of sessions can take in the model
MaxSessions == 2

\* seconds the clock advances under SpecAuth
MaxClock == 1

\* the users of the service, all of them active
Users == {"u1"}

\* `expires_delta = timedelta(days=7)`, in days
REFRESH_TOKEN_DAYS == 7

\* create_refresh_token(user_id) at time t: jwt.encode of the claims sub, exp
\* and type.  jwt.encode writes exp as whole seconds and signs with the
\* service's key, so the token is a function of (user_id, second of t) and of
\* nothing else; it is kept as its claims.  The second component of the pair
\* create_refresh_token returns is the token's exp.
CreateRefreshToken(user_id, t) ==
    [sub |-> user_id, exp |-> t + REFRESH_TOKEN_DAYS * DAY, type |-> "refresh"]

\* a string that is not a token signed by the service
BadToken == [sub |-> "", exp |-> 0, type |-> "garbage"]

\* no token
NoToken == [sub |-> "", exp |-> 0, type |-> "none"]

\* decode_token: None (FALSE here) for a string jwt.decode rejects, because
\* of its signature or because its exp has passed
DecodeToken(token, t) == token.type # "garbage" /\ token.exp >= t

\* Session(user_id=..., token=..., expires_at=...)
NewSession(user_id, token) ==
    [user_id |-> user_id, token |-> token, expires_at |-> token.exp,
     is_revoked |-> FALSE]

\* no call in the slot
IdleCall ==
    [op |-> "none", at |-> "idle", user_id |-> "", token |-> NoToken, row |-> 0,
     new_token |-> NoToken, stale |-> FALSE, used |-> FALSE, outcome |-> "none"]

\* the state after AuthService(db) on an empty table of sessions
NoAuth ==
    /\ sessions = << >>
    /\ calls = [c \in CallIds |-> IdleCall]
    /\ issued = {}
    /\ logged_out = {}
    /\ rotated = {}

-----------------------------------------------------------------------------
(* The state after PerformanceMonitor(db, notification_service).           *)

Init ==
    /\ metrics_history = << >>
    /\ moving_averages = [m \in MetricNames |-> << >>]
    /\ alerts = << >>
    /\ is_running = FALSE
    /\ notifier \in BOOLEAN
    /\ now = 0
    /\ pc = [t \in LoopIds |-> "idle"]
    /\ current = [t \in LoopIds |-> NoSnapshot]
    /\ idx = [t \in LoopIds |-> 0]
    /\ det_alerts = [t \in LoopIds |-> << >>]
    /\ wake_at = [t \in LoopIds |-> 0]
    /\ iterations = 0
    /\ stalls = 0
    /\ reply = "none"
    /\ report = NoReport
    /\ NoAuth

-----------------------------------------------------------------------------
(* start_monitoring / stop_monitoring.                                     *)

\* LoopHead that tests the flag only when the loop is entered
LoopHead_NoRecheck(t, running) ==
    /\ iterations < MaxIter
    /\ iterations' = iterations + 1
    /\ pc' = [pc EXCEPT ![t] = "fetch"]
    /\ current' = [current EXCEPT ![t] = NoSnapshot]
    /\ idx' = [idx EXCEPT ![t] = 0]
    /\ det_alerts' = [det_alerts EXCEPT ![t] = << >>]

\* the head of `while self.is_running`, reached by call t: it enters the
\* try block and suspends in `await self._fetch_bot_metrics()`, or leaves
\* the loop.  The locals of the iteration before are gone.
LoopHead(t, running) ==
    /\ IF running
       THEN /\ iterations < MaxIter
            /\ iterations' = iterations + 1
            /\ pc' = [pc EXCEPT ![t] = "fetch"]
       ELSE /\ iterations' = iterations
            /\ pc' = [pc EXCEPT ![t] = "done"]
    /\ current' = [current EXCEPT ![t] = NoSnapshot]
    /\ idx' = [idx EXCEPT ![t] = 0]
    /\ det_alerts' = [det_alerts EXCEPT ![t] = << >>]

\* a call of start_monitoring(): sets the flag and enters the loop
StartMonitoring(t) ==
    /\ pc[t] = "idle"
    /\ is_running' = TRUE
    /\ LoopHead(t, TRUE)
    /\ UNCHANGED << metrics_history, moving_averages, alerts, notifier, now,
                    wake_at, stalls >>
    /\ reply' = "none"
    /\ report' = NoReport
    /\ UNCHANGED auth_vars

\* stop_monitoring()
StopMonitoring ==
    /\ is_running' = FALSE
    /\ UNCHANGED << metrics_history, moving_averages, alerts, notifier, now,
                    pc, current, idx, det_alerts, wake_at, iterations, stalls >>
    /\ reply' = "none"
    /\ report' = NoReport
    /\ UNCHANGED auth_vars

\* `await asyncio.sleep(300)` ends: back to the head of the loop
SleepDone(t) ==
    /\ pc[t] = "sleep"
    /\ now' = Max(now, wake_at[t])
    /\ LoopHead(t, is_running)
    /\ UNCHANGED << metrics_history, moving_averages, alerts, is_running, notifier,
                    wake_at, stalls >>
    /\ reply' = "none"
    /\ report' = NoReport
    /\ UNCHANGED auth_vars

\* `await asyncio.sleep(60)` of the except block ends: back to the head
BackoffDone(t) ==
    /\ pc[t] = "backoff"
    /\ now' = Max(now, wake_at[t])
    /\ LoopHead(t, is_running)
    /\ UNCHANGED << metrics_history, moving_averages, alerts, is_running, notifier,
                    wake_at, stalls >>
    /\ reply' = "none"
    /\ report' = NoReport
    /\ UNCHANGED auth_vars

\* Backoff that lets the exception end the loop
Backoff_Fatal(t) ==
    /\ pc' = [pc EXCEPT ![t] = "done"]
    /\ wake_at' = [wake_at EXCEPT ![t] = now' + BACKOFF_SLEEP]

\* Backoff that sleeps the nominal interval
Backoff_Nominal(t) ==
    /\ pc' = [pc EXCEPT ![t] = "sleep"]
    /\ wake_at' = [wake_at EXCEPT ![t] = now' + NOMINAL_SLEEP]

\* an exception reaches `except Exception`: print, then asyncio.sleep(60)
Backoff(t) ==
    /\ pc' = [pc EXCEPT ![t] = "backoff"]
    /\ wake_at' = [wake_at EXCEPT ![t] = now' + BACKOFF_SLEEP]

-----------------------------------------------------------------------------
(* collect_metrics.                                                        *)

\* AppendSnapshot that forgets the latency_ms window
AppendSnapshot_SkipWindow(snapshot) ==
    /\ metrics_history' = DequeAppend(metrics_history, snapshot, HistoryMaxLen)
    /\ moving_averages' =
         [m \in MetricNames |->
            IF m = "latency_ms" THEN moving_averages[m]
            ELSE DequeAppend(moving_averages[m], snapshot[m], WindowMaxLen)]

\* lines 111-119: the snapshot enters the history and all six windows
AppendSnapshot(snapshot) ==
    /\ metrics_history' = DequeAppend(metrics_history, snapshot, HistoryMaxLen)
    /\ moving_averages' =
         [m \in MetricNames |->
            DequeAppend(moving_averages[m], snapshot[m], WindowMaxLen)]

\* _fetch_bot_metrics answers `sample` after `delay` seconds; collect_metrics
\* runs on to `await self._save_to_db(snapshot)`
Fetched(t, sample, delay) ==
    /\ pc[t] = "fetch"
    /\ now' = now + delay
    /\ AppendSnapshot(MetricSnapshot(sample, now'))
    /\ pc' = [pc EXCEPT ![t] = "save_db"]
    /\ UNCHANGED << alerts, is_running, notifier, current, idx, det_alerts,
                    wake_at, iterations >>
    /\ reply' = "none"
    /\ report' = NoReport
    /\ UNCHANGED auth_vars

\* the metric source answers at once
FetchOk(t, sample) ==
    /\ Fetched(t, sample, 0)
    /\ stalls' = stalls

\* the metric source answers a day later (nothing bounds the await)
FetchLate(t, sample) ==
    /\ stalls < MaxStalls
    /\ Fetched(t, sample, DAY)
    /\ stalls' = stalls + 1

\* FetchFail that records a snapshot of the defaults of metrics.get(..., 0)
FetchFail_AppendsDefault(t) ==
    /\ pc[t] = "fetch"
    /\ now' = now
    /\ Backoff(t)
    /\ AppendSnapshot(MetricSnapshot(Sample(0, 0, 0, 0, 0, 0), now'))
    /\ UNCHANGED << alerts, is_running, notifier,
                    current, idx, det_alerts, iterations, stalls >>
    /\ reply' = "none"
    /\ report' = NoReport
    /\ UNCHANGED auth_vars

\* _fetch_bot_metrics raises
FetchFail(t) ==
    /\ pc[t] = "fetch"
    /\ now' = now
    /\ Backoff(t)
    /\ UNCHANGED << metrics_history, moving_averages, alerts, is_running, notifier,
                    current, idx, det_alerts, iterations, stalls >>
    /\ reply' = "none"
    /\ report' = NoReport
    /\ UNCHANGED auth_vars

-----------------------------------------------------------------------------
(* detect_anomalies and send_alert.                                        *)

\* DetectFrom whose send_alert never suspends: the for loop runs in one piece
DetectFrom_NoAwait(t, i, cur, found) ==
    LET r == DetectRun(i, cur, moving_averages, now, found, FALSE)
    IN  /\ idx' = [idx EXCEPT ![t] = r.idx]
        /\ det_alerts' = [det_alerts EXCEPT ![t] = r.det]
        /\ alerts' = alerts \o r.det
        /\ pc' = [pc EXCEPT ![t] = "sleep"]
        /\ wake_at' = [wake_at EXCEPT ![t] = now + NOMINAL_SLEEP]

\* DetectFrom that assigns the alerts of the cycle to the log
DetectFrom_Assign(t, i, cur, found) ==
    LET r == DetectRun(i, cur, moving_averages, now, found, notifier)
    IN  /\ idx' = [idx EXCEPT ![t] = r.idx]
        /\ det_alerts' = [det_alerts EXCEPT ![t] = r.det]
        /\ IF r.done
           THEN /\ alerts' = r.det
                /\ pc' = [pc EXCEPT ![t] = "sleep"]
                /\ wake_at' = [wake_at EXCEPT ![t] = now + NOMINAL_SLEEP]
           ELSE /\ alerts' = alerts
                /\ pc' = [pc EXCEPT ![t] = "notify"]
                /\ wake_at' = wake_at

\* detect_anomalies of call t goes on from check i with the alerts `found`
\* so far: it suspends in notifier.send, or it ends with
\* `self.alerts.extend(alerts)` and the loop goes to asyncio.sleep(300)
DetectFrom(t, i, cur, found) ==
    LET r == DetectRun(i, cur, moving_averages, now, found, notifier)
    IN  /\ idx' = [idx EXCEPT ![t] = r.idx]
        /\ det_alerts' = [det_alerts EXCEPT ![t] = r.det]
        /\ IF r.done
           THEN /\ alerts' = alerts \o r.det
                /\ pc' = [pc EXCEPT ![t] = "sleep"]
                /\ wake_at' = [wake_at EXCEPT ![t] = now + NOMINAL_SLEEP]
           ELSE /\ alerts' = alerts
                /\ pc' = [pc EXCEPT ![t] = "notify"]
                /\ wake_at' = wake_at

\* _save_to_db returns (a stub: it cannot raise), collect_metrics returns and
\* detect_anomalies starts
SaveToDb(t) ==
    /\ pc[t] = "save_db"
    /\ IF TooLittleHistory(metrics_history)
       THEN /\ pc' = [pc EXCEPT ![t] = "sleep"]
            /\ wake_at' = [wake_at EXCEPT ![t] = now + NOMINAL_SLEEP]
            /\ det_alerts' = [det_alerts EXCEPT ![t] = << >>]
            /\ UNCHANGED << alerts, current, idx >>
       ELSE /\ current' = [current EXCEPT ![t] = metrics_history[Len(metrics_history)]]
            /\ DetectFrom(t, 1, current'[t], << >>)
    /\ UNCHANGED << metrics_history, moving_averages, is_running, notifier, now,
                    iterations, stalls >>
    /\ reply' = "none"
    /\ report' = NoReport
    /\ UNCHANGED auth_vars

\* notifier.send returns: send_alert prints and returns, the for loop goes on
NotifyOk(t) ==
    /\ pc[t] = "notify"
    /\ DetectFrom(t, idx[t], current[t], det_alerts[t])
    /\ UNCHANGED << metrics_history, moving_averages, is_running, notifier, now,
                    current, iterations, stalls >>
    /\ reply' = "none"
    /\ report' = NoReport
    /\ UNCHANGED auth_vars

\* notifier.send raises: nothing between it and `except Exception` catches
NotifyFail(t) ==
    /\ pc[t] = "notify"
    /\ now' = now
    /\ Backoff(t)
    /\ UNCHANGED << metrics_history, moving_averages, alerts, is_running, notifier,
                    current, idx, det_alerts, iterations, stalls >>
    /\ reply' = "none"
    /\ report' = NoReport
    /\ UNCHANGED auth_vars

-----------------------------------------------------------------------------
(* The request layer.                                                      *)

\* a call of get_current_status()
GetCurrentStatus ==
    /\ reply' = StatusOf(metrics_history, alerts, now)
    /\ report' = NoReport
    /\ UNCHANGED auth_vars
    /\ UNCHANGED << metrics_history, moving_averages, alerts, is_running, notifier,
                    now, pc, current, idx, det_alerts, wake_at, iterations, stalls >>

\* get_metrics_report that filters the history in place
GetMetricsReport_Prune(hours) ==
    /\ report' = MetricsReport(metrics_history, now, hours)
    /\ UNCHANGED auth_vars
    /\ reply' = "none"
    /\ metrics_history' = RecentSnapshots(metrics_history, now, hours)
    /\ UNCHANGED << moving_averages, alerts, is_running, notifier,
                    now, pc, current, idx, det_alerts, wake_at, iterations, stalls >>

\* a call of get_metrics_report(hours)
GetMetricsReport(hours) ==
    /\ report' = MetricsReport(metrics_history, now, hours)
    /\ UNCHANGED auth_vars
    /\ reply' = "none"
    /\ UNCHANGED << metrics_history, moving_averages, alerts, is_running, notifier,
                    now, pc, current, idx, det_alerts, wake_at, iterations, stalls >>

-----------------------------------------------------------------------------

LoopStep(t) ==
    \/ SleepDone(t)
    \/ BackoffDone(t)
    \/ \E sample \in Samples : FetchOk(t, sample)
    \/ FetchFail(t)
    \/ SaveToDb(t)
    \/ NotifyOk(t)
    \/ NotifyFail(t)

\* no start_monitoring() call is inside its loop
NoLoopLive == \A t \in LoopIds : pc[t] \in {"idle", "done"}

\* the calls of start_monitoring() made before call t
Earlier(t) == IF t = "t2" THEN {"t1"} ELSE {}

\* start_monitoring() is called while no earlier call is inside its loop
StartCall(t) ==
    /\ \A e \in Earlier(t) : pc[e] # "idle"
    /\ NoLoopLive
    /\ StartMonitoring(t)

Next ==
    \/ \E t \in LoopIds : StartCall(t)
    \/ StopMonitoring
    \/ \E t \in LoopIds : LoopStep(t)
    \/ GetCurrentStatus

Spec == Init /\ [][Next]_vars

\* the same, with fetches that may take a day to answer the stub's values
NextAged ==
    \/ Next
    \/ \E t \in LoopIds : FetchLate(t, StubSample)

SpecAged == Init /\ [][NextAged]_vars

\* the same as Spec, with the request layer asking for reports as well
NextServed ==
    \/ Next
    \/ \E hours \in ReportHours : GetMetricsReport(hours)

SpecServed == Init /\ [][NextServed]_vars

\* a monitor whose loop was started at time 0 and is never stopped, with
\* fetches that may take a day and the request layer asking for reports
InitReport ==
    /\ metrics_history = << >>
    /\ moving_averages = [m \in MetricNames |-> << >>]
    /\ alerts = << >>
    /\ is_running = TRUE
    /\ notifier \in BOOLEAN
    /\ now = 0
    /\ pc = [t \in LoopIds |-> IF t = "t1" THEN "fetch" ELSE "idle"]
    /\ current = [t \in LoopIds |-> NoSnapshot]
    /\ idx = [t \in LoopIds |-> 0]
    /\ det_alerts = [t \in LoopIds |-> << >>]
    /\ wake_at = [t \in LoopIds |-> 0]
    /\ iterations = 1
    /\ stalls = 0
    /\ reply = "none"
    /\ report = NoReport
    /\ NoAuth

NextReport ==
    \/ \E t \in LoopIds : LoopStep(t)
    \/ \E t \in LoopIds, sample \in Samples : FetchLate(t, sample)
    \/ \E hours \in ReportHours : GetMetricsReport(hours)

SpecReport == InitReport /\ [][NextReport]_vars

\* start_monitoring() is called, whatever the earlier calls are doing:
\* nothing in it looks at is_running or at a loop that is under way
StartAgain(t) ==
    /\ \A e \in Earlier(t) : pc[e] # "idle"
    /\ StartMonitoring(t)

\* the monitor with calls of start_monitoring() at any time, and a metric
\* source and a notifier that do not fail
NextOverlap ==
    \/ \E t \in LoopIds : StartAgain(t)
    \/ StopMonitoring
    \/ \E t \in LoopIds :
          \/ SleepDone(t)
          \/ \E sample \in Samples : FetchOk(t, sample)
          \/ SaveToDb(t)
          \/ NotifyOk(t)

SpecOverlap == Init /\ [][NextOverlap]_vars

\* the event loop ends every asyncio.sleep
SleepsEnd == \A t \in LoopIds : WF_vars(SleepDone(t)) /\ WF_vars(BackoffDone(t))

SpecFair == Spec /\ SleepsEnd

-----------------------------------------------------------------------------
(* The detector on its own: detect_anomalies applied to a monitor whose    *)
(* loop has just appended a snapshot, for histories in which one metric    *)
(* takes the values Levels (in hundredths of its static threshold;         *)
(* expectancy, whose threshold is 0, in hundredths of its stub value) and  *)
(* the other metrics keep the stub's values.                               *)

Levels == {-100, 0, 80, 85, 88, 90, 100, 110, 112, 115, 120}

LevelUnit ==
    [win_rate |-> 55, profit_factor |-> 150, sharpe_ratio |-> 100,
     max_drawdown |-> 15, expectancy |-> 5, latency_ms |-> 10000]

\* the snapshots of MinHistory iterations, NOMINAL_SLEEP apart, in which
\* metric m took the levels lv
LevelHistory(m, lv) ==
    [i \in 1..MinHistory |->
       MetricSnapshot([StubSample EXCEPT ![m] = lv[i] * LevelUnit[m]],
                      (i - 1) * NOMINAL_SLEEP)]

\* the last n elements of a sequence
LastN(s, n) == SubSeq(s, Max(1, Len(s) - n + 1), Len(s))

\* the window of metric m after the snapshots of `history` were appended
WindowOf(history, m) ==
    LastN([i \in 1..Len(history) |-> history[i][m]], WindowMaxLen)

InitDetect ==
    \E m \in MetricNames, lv \in [1..MinHistory -> Levels] :
        /\ metrics_history = LevelHistory(m, lv)
        /\ moving_averages = [mm \in MetricNames |-> WindowOf(metrics_history, mm)]
        /\ alerts = << >>
        /\ is_running = TRUE
        /\ notifier \in BOOLEAN
        /\ now = (MinHistory - 1) * NOMINAL_SLEEP
        /\ pc = [t \in LoopIds |-> IF t = "t1" THEN "save_db" ELSE "idle"]
        /\ current = [t \in LoopIds |-> NoSnapshot]
        /\ idx = [t \in LoopIds |-> 0]
        /\ det_alerts = [t \in LoopIds |-> << >>]
        /\ wake_at = [t \in LoopIds |-> 0]
        /\ iterations = MinHistory
        /\ stalls = 0
        /\ reply = "none"
        /\ report = NoReport
        /\ NoAuth

NextDetect ==
    \E t \in LoopIds : SaveToDb(t) \/ NotifyOk(t) \/ NotifyFail(t)

SpecDetect == InitDetect /\ [][NextDetect]_vars

-----------------------------------------------------------------------------
(* The detector on readings that move several metrics at once: a slump     *)
(* (win_rate 0.40, latency 120 ms), and two readings of a bot that has no  *)
(* drawdown yet and whose profit factor is 0 or negative.                  *)

Readings ==
    { StubSample,
      Sample(4000, 18000, 12000, 1200, 500, 1200000),
      Sample(5600, 0, 12000, 0, 500, 850000),
      Sample(6000, -18000, 12000, 0, 500, 850000) }

\* the snapshots of MinHistory iterations, NOMINAL_SLEEP apart, that
\* collected the readings rs
ReadingHistory(rs) ==
    [i \in 1..MinHistory |-> MetricSnapshot(rs[i], (i - 1) * NOMINAL_SLEEP)]

InitReadings ==
    \E rs \in [1..MinHistory -> Readings] :
        /\ metrics_history = ReadingHistory(rs)
        /\ moving_averages = [mm \in MetricNames |-> WindowOf(metrics_history, mm)]
        /\ alerts = << >>
        /\ is_running = TRUE
        /\ notifier \in BOOLEAN
        /\ now = (MinHistory - 1) * NOMINAL_SLEEP
        /\ pc = [t \in LoopIds |-> IF t = "t1" THEN "save_db" ELSE "idle"]
        /\ current = [t \in LoopIds |-> NoSnapshot]
        /\ idx = [t \in LoopIds |-> 0]
        /\ det_alerts = [t \in LoopIds |-> << >>]
        /\ wake_at = [t \in LoopIds |-> 0]
        /\ iterations = MinHistory
        /\ stalls = 0
        /\ reply = "none"
        /\ report = NoReport
        /\ NoAuth

SpecReadings == InitReadings /\ [][NextDetect]_vars

-----------------------------------------------------------------------------
(* The loop on a metric source that answers the same reading every time.   *)

\* the readings such a source may be stuck at
ConstantReadings == Samples \cup Readings

\* the metric fields of a snapshot
ReadingOf(snapshot) == [k \in DOMAIN StubSample |-> snapshot[k]]

\* the source answers what it answered before, or its first reading
FetchSame(t) ==
    IF metrics_history = << >>
    THEN \E sample \in ConstantReadings : FetchOk(t, sample)
    ELSE FetchOk(t, ReadingOf(metrics_history[Len(metrics_history)]))

NextConstant ==
    \/ \E t \in LoopIds : StartCall(t)
    \/ StopMonitoring
    \/ \E t \in LoopIds :
          \/ SleepDone(t)
          \/ BackoffDone(t)
          \/ FetchSame(t)
          \/ FetchFail(t)
          \/ SaveToDb(t)

SpecConstant == Init /\ [][NextConstant]_vars

-----------------------------------------------------------------------------
(* What the claims speak of.                                               *)

HigherIsBetter == {"win_rate", "profit_factor", "sharpe_ratio"}
LowerIsBetter == {"max_drawdown", "latency_ms"}

\* the values the baseline of a window is the mean of
Prior(w) == SubSeq(w, 1, Len(w) - 1)

\* deviation = |cur - baseline| / baseline > pct/100, the baseline being the
\* mean of Prior(w): a quotient with a negative baseline is not positive
DevAbove(cur, w, pct) ==
    LET n == Len(w) - 1
        total == SumSeq(Prior(w))
    IN  /\ total > 0
        /\ pct * total < 100 * Abs(n * cur - total)

\* the static threshold of the metric is crossed in the bad direction
Breached(name, cur, threshold) ==
    \/ name \in HigherIsBetter /\ cur < threshold
    \/ name \in LowerIsBetter /\ cur > threshold

\* call t's detection has evaluated check j
Evaluated(t, j) == j \in 1..Len(Checks) /\ j < idx[t]

\* call t's detection has created an alert for the metric
Alerted(t, name) ==
    \E k \in 1..Len(det_alerts[t]) : det_alerts[t][k].metric_name = name

\* the metric passes the cold-start gate and the zero-baseline gate
PassesGates(w) == Len(w) >= ColdStart /\ SumSeq(Prior(w)) # 0

\* every alert there is: the log and the detections in progress
AllAlerts ==
    { alerts[k] : k \in 1..Len(alerts) }
      \cup UNION { { det_alerts[t][k] : k \in 1..Len(det_alerts[t]) } : t \in LoopIds }

\* the deviation an alert records is > pct/100
AlertDevAbove(a, pct) == a.dev_den > 0 /\ 100 * a.dev_num > pct * a.dev_den

\* the deviation an alert records is >= pct/100
AlertDevAtLeast(a, pct) == a.dev_den > 0 /\ 100 * a.dev_num >= pct * a.dev_den

\* C1: for every evaluated metric that passes the cold-start and
\* zero-baseline gates, detect_anomalies has created an alert iff
\* deviation > 0.10 and (the threshold is breached or deviation > 0.15)
C1_EmitIff ==
    \A t \in LoopIds : \A j \in 1..Len(Checks) :
        LET c   == Checks[j]
            w   == moving_averages[c.name]
            cur == current[t][c.name]
        IN  (Evaluated(t, j) /\ PassesGates(w)) =>
               (Alerted(t, c.name) <=>
                  /\ DevAbove(cur, w, 10)
                  /\ Breached(c.name, cur, c.threshold) \/ DevAbove(cur, w, 15))

\* a metric with a deviation in (0.10, 0.15] and no breach was evaluated and
\* raised no alert, in a detection that ran to its end
C1_Witness ==
    \E t \in LoopIds : \E j \in 1..Len(Checks) :
        LET c   == Checks[j]
            w   == moving_averages[c.name]
            cur == current[t][c.name]
        IN  /\ pc[t] = "sleep" /\ Evaluated(t, j) /\ PassesGates(w)
            /\ DevAbove(cur, w, 10) /\ ~DevAbove(cur, w, 15)
            /\ ~Breached(c.name, cur, c.threshold)
            /\ ~Alerted(t, c.name)

\* C2: an alert is WARNING exactly when 0.10 < deviation < 0.20, CRITICAL
\* exactly when deviation >= 0.20, and no alert has deviation <= 0.10
C2_LevelBands ==
    \A a \in AllAlerts :
        /\ AlertDevAbove(a, 10)
        /\ a.level = "warning" <=> (AlertDevAbove(a, 10) /\ ~AlertDevAtLeast(a, 20))
        /\ a.level = "critical" <=> AlertDevAtLeast(a, 20)

\* a CRITICAL alert whose deviation is exactly 0.20 is in the log
C2_Witness ==
    \E k \in 1..Len(alerts) :
        /\ alerts[k].level = "critical"
        /\ 100 * alerts[k].dev_num = 20 * alerts[k].dev_den

-----------------------------------------------------------------------------

\* the alerts call t's detection creates in the step
NewAlerts(t) ==
    IF det_alerts'[t] = det_alerts[t] THEN << >>
    ELSE IF pc[t] = "notify"
         THEN SubSeq(det_alerts'[t], Len(det_alerts[t]) + 1, Len(det_alerts'[t]))
         ELSE det_alerts'[t]

\* C3: a step creates an alert for a metric only if the history holds at
\* least MinHistory (288) snapshots and the metric's window at least
\* ColdStart (12) samples, and only then does the log grow
C3_ColdStartGates ==
    [][ /\ \A t \in LoopIds : \A k \in 1..Len(NewAlerts(t)) :
             /\ Len(metrics_history) >= MinHistory
             /\ Len(moving_averages[NewAlerts(t)[k].metric_name]) >= ColdStart
        /\ alerts' # alerts => Len(metrics_history) >= MinHistory ]_vars

\* a cycle ran its detection on a history one short of MinHistory whose
\* newest snapshot is far from the one before, and raised nothing
C3_Witness ==
    \E t \in LoopIds :
        /\ pc[t] = "sleep"
        /\ Len(metrics_history) = MinHistory - 1
        /\ metrics_history[Len(metrics_history)].win_rate = 4800
        /\ metrics_history[Len(metrics_history) - 1].win_rate = 5800
        /\ alerts = << >>
        /\ det_alerts[t] = << >>

\* C4: once a cycle is over (the loop sleeps), every alert its detection
\* created is in the alert log
C4_CreatedAlertsLogged ==
    \A t \in LoopIds :
        pc[t] \in {"sleep", "backoff"} =>
            \A k \in 1..Len(det_alerts[t]) :
                \E j \in 1..Len(alerts) : alerts[j] = det_alerts[t][k]

\* the step ends call t's iteration with an exception
IterationFails(t) ==
    /\ pc[t] \in {"fetch", "save_db", "notify"}
    /\ pc'[t] \notin {"fetch", "save_db", "notify", "sleep"}

\* C5: an iteration that fails leaves is_running alone and takes the loop
\* to its backoff sleep, and a running loop in its backoff sleep starts
\* another iteration (unless it is stopped, or the model's MaxIter
\* iterations are used up)
C5_SelfHealing ==
    /\ [][ \A t \in LoopIds :
             IterationFails(t) => pc'[t] = "backoff" /\ is_running' = is_running ]_vars
    /\ \A t \in LoopIds :
         (pc[t] = "backoff" /\ is_running)
            ~> (pc[t] = "fetch" \/ ~is_running \/ iterations >= MaxIter)

\* a running loop is in the fetch of the iteration that follows a failed
\* one: it was entered when a backoff sleep of 60 s ended
C5_Witness ==
    \E t \in LoopIds :
        /\ pc[t] = "fetch" /\ is_running
        /\ iterations > MinHistory
        /\ now = wake_at[t]
        /\ now % NOMINAL_SLEEP = BACKOFF_SLEEP

\* C6: a notifier failure is absorbed: a cycle that created an alert goes on
\* through the remaining checks and ends in the nominal sleep, never in the
\* backoff
C6_NotifierFailureAbsorbed ==
    \A t \in LoopIds :
        det_alerts[t] # << >> =>
            /\ pc[t] \in {"notify", "sleep"}
            /\ pc[t] = "sleep" => idx[t] = Len(Checks) + 1

\* C7: with the flag down and not raised again, an iteration in flight runs
\* on into its sleep, the loop at an iteration boundary does not fetch or
\* append again, and the sleeping loop ends
C7_CooperativeStop ==
    /\ [][ \A t \in LoopIds :
             (~is_running /\ ~is_running') =>
                /\ pc[t] \in {"fetch", "save_db", "notify"} => pc'[t] # "done"
                /\ pc[t] \in {"sleep", "backoff"} =>
                      /\ pc'[t] \in {pc[t], "done"}
                      /\ pc'[t] = "done" => now' >= wake_at[t]
                      /\ metrics_history' = metrics_history
                      /\ moving_averages' = moving_averages ]_vars
    /\ \A t \in LoopIds :
         (pc[t] \in {"sleep", "backoff"} /\ ~is_running)
            ~> (pc[t] = "done" \/ is_running)

\* a loop that was stopped during its second iteration has ended, the
\* snapshot of that iteration appended
C7_Witness ==
    \E t \in LoopIds :
        /\ pc[t] = "done" /\ ~is_running
        /\ iterations = 2
        /\ Len(metrics_history) = 2

\* C8: in every state (every await of the loop) each window is, in order,
\* the metric's values in the newest min(WindowMaxLen, |history|) snapshots
C8_WindowsInSync ==
    \A m \in MetricNames :
        LET h == Len(metrics_history)
            n == IF h < WindowMaxLen THEN h ELSE WindowMaxLen
        IN  /\ Len(moving_averages[m]) = n
            /\ \A i \in 1..n : moving_averages[m][i] = metrics_history[h - n + i][m]

\* a loop is suspended in _save_to_db with more snapshots in the history
\* than a window holds
C8_Witness ==
    \E t \in LoopIds :
        /\ pc[t] = "save_db"
        /\ Len(metrics_history) > WindowMaxLen

\* the step appends to a bounded FIFO of capacity cap: the old contents stay
\* in order, less the oldest when it was full
FifoStep(old, new, cap) ==
    /\ Len(new) <= cap
    /\ IF Len(old) < cap
       THEN Len(new) = Len(old) + 1 /\ SubSeq(new, 1, Len(old)) = old
       ELSE Len(new) = cap /\ SubSeq(new, 1, cap - 1) = Tail(old)

\* C9: the history and the windows never exceed their capacity, every
\* change of one is a FIFO append that evicts exactly the oldest element of
\* a full buffer, and (the snapshots being in strictly increasing order of
\* time) an evicted snapshot is not in the history afterwards
C9_BoundedFifo ==
    /\ [](/\ Len(metrics_history) <= HistoryMaxLen
          /\ \A m \in MetricNames : Len(moving_averages[m]) <= WindowMaxLen
          /\ \A i \in 1..Len(metrics_history) - 1 :
                metrics_history[i].timestamp < metrics_history[i + 1].timestamp)
    /\ [][ /\ metrics_history' # metrics_history =>
                /\ FifoStep(metrics_history, metrics_history', HistoryMaxLen)
                /\ Len(metrics_history) = HistoryMaxLen =>
                      \A i \in 1..Len(metrics_history') :
                          metrics_history'[i] # metrics_history[1]
           /\ \A m \in MetricNames :
                moving_averages'[m] # moving_averages[m] =>
                   FifoStep(moving_averages[m], moving_averages'[m], WindowMaxLen) ]_vars

\* the history is full and its first snapshot, taken at time 0, has been
\* evicted
C9_Witness ==
    /\ Len(metrics_history) = HistoryMaxLen
    /\ metrics_history[1].timestamp = NOMINAL_SLEEP
    /\ metrics_history[HistoryMaxLen].timestamp = HistoryMaxLen * NOMINAL_SLEEP

\* the alerts of the log whose timestamp is within the trailing 24 hours
Trailing24h == { k \in 1..Len(alerts) : now - alerts[k].timestamp < DAY }

\* the status the roll-up rule gives
RollUp ==
    IF Len(metrics_history) = 0 THEN "initializing"
    ELSE IF \E k \in Trailing24h : alerts[k].level = "critical" THEN "critical"
    ELSE IF Cardinality(Trailing24h) > 3 THEN "warning"
    ELSE "healthy"

\* C10: get_current_status answers 'initializing' iff the history is empty,
\* else 'critical' if an alert of the trailing 24 hours is CRITICAL, else
\* 'warning' if there are more than 3 such alerts, else 'healthy'
C10_StatusRollUp ==
    /\ StatusOf(metrics_history, alerts, now) = RollUp
    /\ reply # "none" => reply = RollUp

\* get_current_status has just answered 'healthy' with exactly 3 WARNING
\* alerts in the trailing 24 hours and a CRITICAL alert older than that
C10_Witness ==
    /\ reply = "healthy"
    /\ Cardinality(Trailing24h) = 3
    /\ \E k \in 1..Len(alerts) : k \notin Trailing24h /\ alerts[k].level = "critical"

-----------------------------------------------------------------------------

\* the window is past the cold-start gate and its baseline is exactly 0
ZeroBaseline(w) == Len(w) >= ColdStart /\ SumSeq(Prior(w)) = 0

\* the first check the step of call t's detection evaluates
FirstCheck(t) == IF pc[t] = "save_db" THEN 1 ELSE idx[t]

\* the step of call t's detection evaluates check j
Evaluates(t, j) ==
    /\ pc[t] \in {"save_db", "notify"}
    /\ FirstCheck(t) <= j /\ j < idx'[t]

\* C11: a step of the detection that evaluates a metric whose baseline is
\* exactly 0 creates no alert for it, raises nothing (the cycle does not go
\* to the backoff), and goes on to the metrics after it: it suspends in the
\* dispatch of a later metric's alert or runs to the end of the checks
C11_ZeroBaselineSkipped ==
    [][ \A t \in LoopIds : \A j \in 1..Len(Checks) :
          (Evaluates(t, j) /\ ZeroBaseline(moving_averages[Checks[j].name])) =>
             /\ \A k \in 1..Len(NewAlerts(t)) :
                   NewAlerts(t)[k].metric_name # Checks[j].name
             /\ pc'[t] \in {"notify", "sleep"}
             /\ pc'[t] = "notify" => idx'[t] > j + 1
             /\ pc'[t] = "sleep" => idx'[t] = Len(Checks) + 1 ]_vars

\* a cycle ran to its end with alerts for win_rate and latency_ms and none
\* for max_drawdown, whose baseline is 0 and whose current value is not
C11_Witness ==
    \E t \in LoopIds :
        /\ pc[t] = "sleep" /\ idx[t] = Len(Checks) + 1
        /\ ZeroBaseline(moving_averages["max_drawdown"])
        /\ current[t].max_drawdown # 0
        /\ Alerted(t, "win_rate") /\ Alerted(t, "latency_ms")
        /\ ~Alerted(t, "max_drawdown")

-----------------------------------------------------------------------------

\* |current - baseline| of a window, times the number of prior values
Distance(w) == Abs(w[Len(w)] * (Len(w) - 1) - SumSeq(Prior(w)))

\* C12: on a constant input stream the newest value of every window is at
\* distance 0 from the mean of the values before it (the deviation is 0),
\* no detection creates an alert and the alert log stays empty
C12_ConstantStreamSilent ==
    /\ \A m \in MetricNames :
          moving_averages[m] # << >> => Distance(moving_averages[m]) = 0
    /\ \A t \in LoopIds : det_alerts[t] = << >> /\ pc[t] # "notify"
    /\ alerts = << >>

\* the detection ran to its end on a history that has wrapped, every
\* reading having win_rate 0.48, below the static threshold
C12_Witness ==
    \E t \in LoopIds :
        /\ pc[t] = "sleep" /\ idx[t] = Len(Checks) + 1
        /\ Len(metrics_history) = HistoryMaxLen
        /\ metrics_history[1].timestamp = NOMINAL_SLEEP
        /\ metrics_history[HistoryMaxLen].timestamp = HistoryMaxLen * NOMINAL_SLEEP
        /\ \A i \in 1..HistoryMaxLen : metrics_history[i].win_rate = 4800

\* C13: whenever a detection is about to evaluate a metric (it is suspended
\* in a dispatch with checks left), the `current` it compares is the last
\* snapshot of the history and its values are the last elements of the
\* windows, so that the baseline, the mean of ma_values[:-1], is the mean
\* of the window without the sample of this cycle
C13_BaselineExcludesCurrent ==
    \A t \in LoopIds :
        (pc[t] = "notify" /\ idx[t] <= Len(Checks)) =>
            /\ current[t] = metrics_history[Len(metrics_history)]
            /\ \A m \in MetricNames :
                  moving_averages[m][Len(moving_averages[m])] = current[t][m]

\* a detection on a history longer than a window has created a win_rate
\* alert for the value 0.48 against a window whose other values are 0.58
C13_Witness ==
    \E t \in LoopIds :
        /\ Len(metrics_history) > WindowMaxLen
        /\ Alerted(t, "win_rate")
        /\ current[t].win_rate = 4800
        /\ \A i \in 1..Len(moving_averages["win_rate"]) - 1 :
              moving_averages["win_rate"][i] = 5800

-----------------------------------------------------------------------------

\* the step is a failure of call t's fetch
FetchFails(t) == pc[t] = "fetch" /\ pc'[t] \notin {"fetch", "save_db"}

\* call t sleeps after a failed fetch
FetchBackoff(t) == pc[t] = "backoff" /\ current[t] = NoSnapshot /\ det_alerts[t] = << >>

\* C14: a failed fetch appends nothing to the history or to any window,
\* creates no alert and leaves the log as it is, and puts the loop in its
\* backoff sleep; until that sleep is over the loop touches nothing, and a
\* running loop then fetches again (unless it is stopped, or the model's
\* MaxIter iterations are used up)
C14_FetchFailureFrame ==
    /\ [][ \A t \in LoopIds :
             /\ FetchFails(t) =>
                   /\ UNCHANGED << metrics_history, moving_averages, alerts >>
                   /\ det_alerts'[t] = << >>
                   /\ pc'[t] = "backoff"
                   /\ wake_at'[t] = now' + BACKOFF_SLEEP
             /\ (FetchBackoff(t) /\ pc'[t] # "backoff") =>
                   /\ UNCHANGED << metrics_history, moving_averages, alerts >>
                   /\ now' >= wake_at[t]
                   /\ pc'[t] = IF is_running THEN "fetch" ELSE "done" ]_vars
    /\ \A t \in LoopIds :
         (FetchBackoff(t) /\ is_running)
            ~> (pc[t] = "fetch" \/ ~is_running \/ iterations >= MaxIter)

\* the first fetch of a loop failed at time 0 and the fetch of its next
\* iteration, a backoff later, has appended the first snapshot
C14_Witness ==
    \E t \in LoopIds :
        /\ pc[t] = "save_db"
        /\ iterations = 2
        /\ Len(metrics_history) = 1
        /\ metrics_history[1].timestamp = BACKOFF_SLEEP

-----------------------------------------------------------------------------

\* where a call is while one of its iterations is under way
InIteration == {"fetch", "save_db", "notify"}

\* the step ends an iteration of call t
IterationEnds(t) == pc[t] \in InIteration /\ pc'[t] \notin InIteration

\* the step ends it by the return of detect_anomalies, which is past the
\* fetch and the append and has added its alerts to the log
Completes(t) == pc[t] # "fetch" /\ alerts' = alerts \o det_alerts'[t]

\* C15: an iteration ends in the 300 s sleep when detect_anomalies returned
\* and in the 60 s sleep when a step of it raised, never anywhere else, and
\* neither sleep is followed by the other
C15_ExactlyOneSleep ==
    [][ \A t \in LoopIds :
          /\ IterationEnds(t) =>
                IF Completes(t)
                THEN pc'[t] = "sleep" /\ wake_at'[t] = now' + NOMINAL_SLEEP
                ELSE pc'[t] = "backoff" /\ wake_at'[t] = now' + BACKOFF_SLEEP
          /\ pc[t] = "sleep" => pc'[t] \in {"sleep", "fetch", "done"}
          /\ pc[t] = "backoff" => pc'[t] \in {"backoff", "fetch", "done"} ]_vars

\* an iteration whose dispatch raised is in its 60 s sleep, and the
\* iteration before it had ended in the 300 s sleep
C15_Witness ==
    \E t \in LoopIds :
        /\ pc[t] = "backoff" /\ det_alerts[t] # << >>
        /\ wake_at[t] = now + BACKOFF_SLEEP
        /\ now = (MinHistory - 1) * NOMINAL_SLEEP

-----------------------------------------------------------------------------

\* the alerts call t's detection has created for the metric
AlertsFor(t, name) ==
    SelectSeq(det_alerts[t], LAMBDA a : a.metric_name = name)

\* the alert of the example: CRITICAL, for win_rate 0.40 under the threshold
\* 0.55, with deviation 18/58, which is 31.03 per cent and a bit
SlumpAlert(a) ==
    /\ a.metric_name = "win_rate"
    /\ a.level = AlertLevel.CRITICAL
    /\ a.current_value = 4000
    /\ a.threshold = WIN_RATE_THRESHOLD
    /\ ThresholdBreached(">", a.current_value, a.threshold)
    /\ 58 * a.dev_num = 18 * a.dev_den
    /\ 3103 * a.dev_den <= 10000 * a.dev_num
    /\ 10000 * a.dev_num < 3104 * a.dev_den

\* windows of 12 samples, the 11 before the newest of mean 0.58
SlumpWindows ==
    { [i \in 1..12 |-> IF i = 12 THEN 4000 ELSE 5800],
      [i \in 1..12 |-> IF i = 12 THEN 4000 ELSE IF i = 11 THEN 5800
                                      ELSE IF i % 2 = 0 THEN 5600 ELSE 6000] }

-----------------------------------------------------------------------------

\* the deviation is in (0.10, 0.15], where the breach alone decides
BreachDecides(cur, w) ==
    PassesGates(w) /\ DevAbove(cur, w, 10) /\ ~DevAbove(cur, w, 15)

\* C17: for every evaluated metric threshold_breached is `current <
\* threshold` for win_rate, profit_factor and sharpe_ratio and `current >
\* threshold` for max_drawdown and latency_ms, false at current = threshold;
\* with a deviation in (0.10, 0.15] the metric has an alert exactly then
C17_DirectionAwareBreach ==
    \A t \in LoopIds : \A j \in 1..Len(Checks) :
        LET c   == Checks[j]
            w   == moving_averages[c.name]
            cur == current[t][c.name]
            breach == ThresholdBreached(c.direction, cur, c.threshold)
        IN  Evaluated(t, j) =>
              /\ c.name \in HigherIsBetter \cup LowerIsBetter
              /\ c.name \in HigherIsBetter => (breach <=> cur < c.threshold)
              /\ c.name \in LowerIsBetter => (breach <=> cur > c.threshold)
              /\ cur = c.threshold => ~breach
              /\ BreachDecides(cur, w) => (Alerted(t, c.name) <=> breach)

\* a cycle is over in which max_drawdown, with a deviation in (0.10, 0.15],
\* stood exactly at its threshold and raised nothing
C17_Witness ==
    \E t \in LoopIds :
        /\ pc[t] = "sleep" /\ idx[t] = Len(Checks) + 1
        /\ current[t].max_drawdown = MAX_DRAWDOWN_THRESHOLD
        /\ BreachDecides(current[t].max_drawdown, moving_averages["max_drawdown"])
        /\ ~Alerted(t, "max_drawdown")

-----------------------------------------------------------------------------

\* the step is the return of a call of get_current_status or
\* get_metrics_report
QueryReturns == reply' # "none" \/ report' # NoReport

\* C18: a call of get_current_status or get_metrics_report, wherever the
\* loop is, leaves the history, every window, the alert log and is_running
\* as they are
C18_QueriesReadOnly ==
    [][ QueryReturns =>
          UNCHANGED << metrics_history, moving_averages, alerts, is_running >> ]_vars

\* a report over a non-empty history was returned while a loop is suspended
\* in the dispatch of an alert
C18_Witness ==
    /\ report # NoReport /\ report.kind = "report"
    /\ \E t \in LoopIds : pc[t] = "notify" /\ det_alerts[t] # << >>

\* the snapshots of the history strictly newer than now - hours
NewerThan(hours) ==
    { i \in 1..Len(metrics_history) :
        now - metrics_history[i].timestamp < hours * HOUR }

\* the newest of them
Newest(S) ==
    metrics_history[CHOOSE i \in S :
        \A k \in S : metrics_history[k].timestamp <= metrics_history[i].timestamp]

\* the report r is the one over the snapshots S, which are not none
ReportOver(r, S) ==
    /\ r.kind = "report"
    /\ r.data_points = Cardinality(S)
    /\ r.win_rate.current = Newest(S).win_rate
    /\ r.profit_factor.current = Newest(S).profit_factor
    /\ r.sharpe_ratio.current = Newest(S).sharpe_ratio
    /\ r.max_drawdown.current = Newest(S).max_drawdown
    /\ \A i \in S : r.win_rate.min <= metrics_history[i].win_rate
    /\ \A i \in S : r.win_rate.max >= metrics_history[i].win_rate
    /\ \E i \in S : r.win_rate.min = metrics_history[i].win_rate
    /\ \E i \in S : r.win_rate.max = metrics_history[i].win_rate
    /\ r.win_rate.min * r.data_points <= r.win_rate.sum
    /\ r.win_rate.sum <= r.win_rate.max * r.data_points

\* C19: get_metrics_report(hours) answers the error result iff no snapshot
\* of the history is strictly newer than now - hours, and otherwise a
\* report whose data_points is the number of those snapshots, whose
\* 'current' values are those of the newest of them and whose win_rate has
\* min <= avg <= max over them (avg = sum / data_points); and what a call
\* returned is that answer
C19_ReportOverRecent ==
    /\ \A hours \in ReportHours :
          LET r == MetricsReport(metrics_history, now, hours)
              S == NewerThan(hours)
          IN  /\ r = ErrorReport <=> S = {}
              /\ S # {} => ReportOver(r, S)
    /\ report # NoReport =>
          \E hours \in ReportHours :
              report = MetricsReport(metrics_history, now, hours)

\* a call has returned a report over some but not all snapshots of the
\* history, with different win rates among them
C19_Witness ==
    /\ report # NoReport /\ report.kind = "report"
    /\ report.data_points >= 2
    /\ report.data_points < Len(metrics_history)
    /\ report.win_rate.min < report.win_rate.max

-----------------------------------------------------------------------------

\* the calls of start_monitoring() that are inside an iteration of their loop
Iterating == { t \in LoopIds : pc[t] \in InIteration }

\* C20: at most one loop is iterating on the monitor at any time
C20_SingleLoop == Cardinality(Iterating) <= 1

-----------------------------------------------------------------------------

-----------------------------------------------------------------------------

\* C22: no step of the monitor (loop, stop, status or report query) removes,
\* reorders or rewrites a logged alert: the log before the step is a prefix
\* of the log after it
C22_LogAppendOnly ==
    [][/\ Len(alerts') >= Len(alerts)
       /\ SubSeq(alerts', 1, Len(alerts)) = alerts]_vars

\* the log holds alerts of two cycles, the later ones after the earlier
C22_Witness ==
    \E i \in 1..Len(alerts) :
        /\ i < Len(alerts)
        /\ alerts[i].timestamp < alerts[i + 1].timestamp

-----------------------------------------------------------------------------

\* the moves of one start_monitoring() task between its suspension points
IterationOrder ==
    { << "idle", "fetch" >>, << "fetch", "save_db" >>, << "fetch", "backoff" >>,
      << "save_db", "notify" >>, << "save_db", "sleep" >>,
      << "notify", "notify" >>, << "notify", "sleep" >>, << "notify", "backoff" >>,
      << "sleep", "fetch" >>, << "sleep", "done" >>,
      << "backoff", "fetch" >>, << "backoff", "done" >> }

\* the step is the append of collect_metrics of task t: one snapshot enters
\* the history and one value each of the six windows
AppendsOne(t) ==
    /\ pc[t] = "fetch"
    /\ pc'[t] = "save_db"
    /\ metrics_history' # << >>
    /\ LET snapshot == metrics_history'[Len(metrics_history')]
       IN  /\ metrics_history' = DequeAppend(metrics_history, snapshot, HistoryMaxLen)
           /\ \A m \in MetricNames :
                 moving_averages'[m] =
                     DequeAppend(moving_averages[m], snapshot[m], WindowMaxLen)

\* C23: every task moves fetch, append, evaluate, dispatch, sleep.  The
\* history and the windows change only in the append of an iteration, by
\* exactly one snapshot; an iteration reaches the detector only through that
\* append; the detector works only after it, on the last snapshot of the
\* history at its start; and,
\* with a notifier, a step that creates an alert creates exactly one and
\* suspends in its dispatch, so that the step into the sleep creates none
C23_IterationOrder ==
    [][\A t \in LoopIds :
         /\ pc'[t] # pc[t] => << pc[t], pc'[t] >> \in IterationOrder
         /\ (pc[t] = "fetch" /\ pc'[t] = "save_db") => AppendsOne(t)
         /\ (metrics_history' # metrics_history \/ moving_averages' # moving_averages)
               => \E u \in LoopIds : AppendsOne(u)
         /\ (det_alerts'[t] # << >> /\ det_alerts'[t] # det_alerts[t]) =>
               /\ pc[t] \in {"save_db", "notify"}
               /\ current'[t] = IF pc[t] = "notify" THEN current[t]
                                ELSE metrics_history[Len(metrics_history)]
               /\ metrics_history' = metrics_history
         /\ (notifier /\ det_alerts'[t] # << >> /\ det_alerts'[t] # det_alerts[t]) =>
               /\ pc'[t] = "notify"
               /\ Len(det_alerts'[t]) = Len(det_alerts[t]) + 1
               /\ SubSeq(det_alerts'[t], 1, Len(det_alerts[t])) = det_alerts[t]
         /\ (notifier /\ pc[t] # "sleep" /\ pc'[t] = "sleep") =>
               /\ pc[t] \in {"save_db", "notify"}
               /\ det_alerts'[t] = IF pc[t] = "notify" THEN det_alerts[t] ELSE << >>
               /\ alerts' = alerts \o det_alerts'[t]
      ]_vars

\* a task with a notifier sleeps after an iteration whose detection has
\* dispatched two alerts on a full history
C23_Witness ==
    \E t \in LoopIds :
        /\ notifier
        /\ pc[t] = "sleep"
        /\ Len(det_alerts[t]) >= 2
        /\ Len(metrics_history) = HistoryMaxLen

-----------------------------------------------------------------------------

\* C24: whenever the history holds at least MinHistory snapshots every
\* window is full (WindowMaxLen samples), and whenever a detection is under
\* way every window it reads passes the cold-start check and gives a
\* baseline over exactly WindowMaxLen - 1 prior samples
C24_GatePassedWindowsFull ==
    /\ Len(metrics_history) >= MinHistory =>
          \A m \in MetricNames : Len(moving_averages[m]) = WindowMaxLen
    /\ \A t \in LoopIds : pc[t] = "notify" =>
          \A j \in 1..Len(Checks) :
              LET w == moving_averages[Checks[j].name]
              IN  /\ ~ColdStartSkip(w)
                  /\ Len(Prior(w)) = WindowMaxLen - 1

\* a detection that has created an alert is under way on a history longer
\* than the windows, which have evicted their oldest sample
C24_Witness ==
    \E t \in LoopIds :
        /\ pc[t] = "notify"
        /\ det_alerts[t] # << >>
        /\ Len(metrics_history) > WindowMaxLen

-----------------------------------------------------------------------------

\* the baseline of the window, the mean of Prior(w), is negative
NegativeBaseline(w) == Len(w) >= ColdStart /\ SumSeq(Prior(w)) < 0

\* C25: a metric that was evaluated against a negative baseline has raised
\* no alert in that cycle, whatever its current value and whether or not
\* its static threshold is breached
C25_NegativeBaselineSilent ==
    \A t \in LoopIds : \A j \in 1..Len(Checks) :
        LET c == Checks[j]
            w == moving_averages[c.name]
        IN  (Evaluated(t, j) /\ NegativeBaseline(w)) =>
               /\ ~Alerted(t, c.name)
               /\ \A a \in AllAlerts : a.metric_name # c.name

\* a detection has ended without an alert on a metric whose baseline is
\* negative, whose current value is at a distance of more than the
\* magnitude of the baseline from it and breaches the static threshold
C25_Witness ==
    \E t \in LoopIds : \E j \in 1..Len(Checks) :
        LET c   == Checks[j]
            w   == moving_averages[c.name]
            cur == current[t][c.name]
            n   == Len(w) - 1
        IN  /\ pc[t] = "sleep" /\ Evaluated(t, j) /\ NegativeBaseline(w)
            /\ Breached(c.name, cur, c.threshold)
            /\ Abs(n * cur - SumSeq(Prior(w))) > Abs(SumSeq(Prior(w)))
            /\ ~Alerted(t, c.name)

-----------------------------------------------------------------------------

\* the metrics the detector evaluates
CheckedMetrics ==
    {"win_rate", "profit_factor", "sharpe_ratio", "max_drawdown", "latency_ms"}

\* C26: no alert, created by a detection or logged, is for expectancy: every
\* alert is for one of the five metrics the detector evaluates
C26_NoExpectancyAlert ==
    \A a \in AllAlerts :
        /\ a.metric_name # "expectancy"
        /\ a.metric_name \in CheckedMetrics

\* a detection has ended on a history whose expectancy window is full, whose
\* current expectancy is below EXPECTANCY_THRESHOLD and more than 15% away
\* from its positive baseline, and there is no alert at all
C26_Witness ==
    \E t \in LoopIds :
        LET w   == moving_averages["expectancy"]
            cur == current[t]["expectancy"]
        IN  /\ pc[t] = "sleep"
            /\ idx[t] > Len(Checks)
            /\ Len(w) = WindowMaxLen
            /\ cur < EXPECTANCY_THRESHOLD
            /\ DevAbove(cur, w, 15)
            /\ AllAlerts = {}

-----------------------------------------------------------------------------
(* AuthService: authenticate, refresh_token and logout.  Every call runs   *)
(* on its own database session; an action is the code of a call from one   *)
(* await to the next, and a commit takes effect in the step that ends it.  *)

\* the slot is free for a new call
Free(c) == calls[c].at \in {"idle", "done"}

\* the call in slot c returns or raises
Finish(c, result) ==
    calls' = [calls EXCEPT ![c].at = "done", ![c].outcome = result]

\* what a client can present as a refresh token: one it was given, or not
\* a token
Presentable == issued \cup {BadToken}

\* a column `token` declared unique rejects a row that would hold `token`
\* while a row other than `row` holds it
TokenConflict(unique, token, row) ==
    /\ unique
    /\ \E j \in 1..Len(sessions) : j # row /\ sessions[j].token = token

\* authenticate up to `await self.db.commit()` after `user.last_login = ...`:
\* the credentials are checked; a wrong password raises
AuthenticateBegin(c, user_id, valid) ==
    /\ Free(c)
    /\ calls' = [calls EXCEPT ![c] =
                    [IdleCall EXCEPT !.op = "login", !.user_id = user_id,
                                     !.at = IF valid THEN "session" ELSE "done",
                                     !.outcome = IF valid THEN "none" ELSE "error"]]
    /\ UNCHANGED << sessions, issued, logged_out, rotated, now >>
    /\ UNCHANGED monitor_vars

\* authenticate from `# Create tokens` on: the tokens are made at the time
\* the first commit returns, the Session row is added and committed, the
\* TokenResponse is returned
AuthenticateSession(c, unique) ==
    /\ calls[c].op = "login"
    /\ calls[c].at = "session"
    /\ LET refresh_token == CreateRefreshToken(calls[c].user_id, now)
       IN  IF TokenConflict(unique, refresh_token, 0)
           THEN /\ Finish(c, "error")
                /\ UNCHANGED << sessions, issued >>
           ELSE /\ Len(sessions) < MaxSessions
                /\ sessions' = Append(sessions,
                                      NewSession(calls[c].user_id, refresh_token))
                /\ issued' = issued \cup {refresh_token}
                /\ calls' = [calls EXCEPT ![c].at = "done", ![c].outcome = "ok",
                                          ![c].new_token = refresh_token]
    /\ UNCHANGED << logged_out, rotated, now >>
    /\ UNCHANGED monitor_vars

\* refresh_token(token) up to `await self.get_user_by_id(user_id)`: a string
\* that does not decode to a refresh token raises "Invalid refresh token".
\* `stale` and `used` record whether the call was made after a logout had
\* revoked the token's session and after a refresh had used the token.
RefreshBegin(c, token) ==
    /\ Free(c)
    /\ token \in Presentable
    /\ LET valid == DecodeToken(token, now) /\ token.type = "refresh"
       IN  calls' = [calls EXCEPT ![c] =
                       [IdleCall EXCEPT !.op = "refresh", !.token = token,
                                        !.user_id = token.sub,
                                        !.stale = token \in logged_out,
                                        !.used = token \in rotated,
                                        !.at = IF valid THEN "select" ELSE "done",
                                        !.outcome = IF valid THEN "none" ELSE "error"]]
    /\ UNCHANGED << sessions, issued, logged_out, rotated, now >>
    /\ UNCHANGED monitor_vars

\* the rows `select(Session).where(token == ..., is_revoked == False)` finds
LiveRows(token) ==
    { i \in 1..Len(sessions) : sessions[i].token = token /\ ~sessions[i].is_revoked }

\* refresh_token from the answer of the select to `await self.db.commit()`:
\* scalar_one_or_none raises on several rows, no row or an expired one raises
\* "Session expired", otherwise the new tokens are made and set on the row
\* object
RefreshSelect(c) ==
    /\ calls[c].op = "refresh"
    /\ calls[c].at = "select"
    /\ LET found == LiveRows(calls[c].token)
       IN  IF Cardinality(found) # 1
           THEN Finish(c, "error")
           ELSE LET row == CHOOSE i \in found : TRUE
                IN  IF sessions[row].expires_at < now
                    THEN Finish(c, "error")
                    ELSE calls' = [calls EXCEPT
                                     ![c].at = "commit",
                                     ![c].row = row,
                                     ![c].new_token =
                                         CreateRefreshToken(calls[c].user_id, now)]
    /\ UNCHANGED << sessions, issued, logged_out, rotated, now >>
    /\ UNCHANGED monitor_vars

\* the commit of refresh_token writes token and expires_at of the row, and
\* the TokenResponse is returned
RefreshCommit(c, unique) ==
    /\ calls[c].op = "refresh"
    /\ calls[c].at = "commit"
    /\ LET row == calls[c].row
           new_refresh_token == calls[c].new_token
       IN  IF TokenConflict(unique, new_refresh_token, row)
           THEN /\ Finish(c, "error")
                /\ UNCHANGED << sessions, issued, rotated >>
           ELSE /\ sessions' = [sessions EXCEPT
                                  ![row].token = new_refresh_token,
                                  ![row].expires_at = new_refresh_token.exp]
                /\ issued' = issued \cup {new_refresh_token}
                /\ rotated' = rotated \cup {calls[c].token}
                /\ Finish(c, "ok")
    /\ UNCHANGED << logged_out, now >>
    /\ UNCHANGED monitor_vars

\* the rows `select(Session).where(user_id == ..., token == ...)` finds
UserRows(user_id, token) ==
    { i \in 1..Len(sessions) :
        sessions[i].user_id = user_id /\ sessions[i].token = token }

\* logout(user_id, token) from the answer of the select on: with no row it
\* only writes the audit log, with one it sets is_revoked on the row object
\* and suspends in the commit, with several scalar_one_or_none raises
LogoutSelect(c, user_id, token) ==
    /\ Free(c)
    /\ token \in Presentable
    /\ LET found == UserRows(user_id, token)
           call  == [IdleCall EXCEPT !.op = "logout", !.user_id = user_id,
                                     !.token = token]
       IN  calls' = [calls EXCEPT ![c] =
                       IF Cardinality(found) > 1
                       THEN [call EXCEPT !.at = "done", !.outcome = "error"]
                       ELSE IF found = {}
                       THEN [call EXCEPT !.at = "done", !.outcome = "ok"]
                       ELSE [call EXCEPT !.at = "commit",
                                         !.row = CHOOSE i \in found : TRUE]]
    /\ UNCHANGED << sessions, issued, logged_out, rotated, now >>
    /\ UNCHANGED monitor_vars

\* the commit of logout writes is_revoked of the row; the audit log follows
LogoutCommit(c) ==
    /\ calls[c].op = "logout"
    /\ calls[c].at = "commit"
    /\ sessions' = [sessions EXCEPT ![calls[c].row].is_revoked = TRUE]
    /\ logged_out' = IF sessions[calls[c].row].token = calls[c].token
                     THEN logged_out \cup {calls[c].token}
                     ELSE logged_out
    /\ Finish(c, "ok")
    /\ UNCHANGED << issued, rotated, now >>
    /\ UNCHANGED monitor_vars

\* a second passes
Tick ==
    /\ now < MaxClock
    /\ now' = now + 1
    /\ UNCHANGED auth_vars
    /\ UNCHANGED monitor_vars

\* the calls of AuthService on a table whose column `token` is unique or not
AuthStep(unique) ==
    \E c \in CallIds :
        \/ \E user_id \in Users, valid \in BOOLEAN : AuthenticateBegin(c, user_id, valid)
        \/ AuthenticateSession(c, unique)
        \/ \E token \in Presentable : RefreshBegin(c, token)
        \/ RefreshSelect(c)
        \/ RefreshCommit(c, unique)
        \/ \E user_id \in Users, token \in Presentable : LogoutSelect(c, user_id, token)
        \/ LogoutCommit(c)

\* AuthService on a table of sessions without a constraint on `token`
NextAuth == Tick \/ AuthStep(FALSE)

SpecAuth == Init /\ [][NextAuth]_vars

\* AuthService on a table of sessions whose column `token` is unique
NextAuthUnique == Tick \/ AuthStep(TRUE)

SpecAuthUnique == Init /\ [][NextAuthUnique]_vars

-----------------------------------------------------------------------------

\* the call in slot c is a refresh_token call that returned a TokenResponse
RefreshSucceeded(c) == calls[c].op = "refresh" /\ calls[c].outcome = "ok"

\* C27: a refresh_token(token) called after a logout(user_id, token) has
\* revoked the session that held the token does not return a TokenResponse,
\* whatever login, refresh and logout calls are interleaved with it
C27_NoRefreshAfterLogout ==
    \A c \in CallIds : (calls[c].op = "refresh" /\ calls[c].stale) => ~RefreshSucceeded(c)

\* C28: a refresh_token(t) called after a refresh_token(t) has succeeded
\* does not return a TokenResponse
C28_RefreshTokenSingleUse ==
    \A c \in CallIds : (calls[c].op = "refresh" /\ calls[c].used) => ~RefreshSucceeded(c)

=============================================================================
